---- MODULE Spec2Model ----
(***************************************************************************)
(* GatewayStorage (src/lib/settings/GatewayStorage.js): the one-shot init  *)
(* protocol of a settings gateway.  init() bootstraps the schema           *)
(* definition file on disk and then the provider's table.  Every await of  *)
(* the code is a suspension point: the call's position is kept in pc and   *)
(* the continuation after the await is one action.  The process may be     *)
(* killed at any time; the filesystem and the provider's tables survive,   *)
(* the Gateway objects do not.                                             *)
(***************************************************************************)
EXTENDS Integers, Sequences, FiniteSets, TLC

\* ------------------------------------------------------------------ bounds
MaxCalls == 3
MaxCrashes == 1

\* ---------------------------------------------------------------- universe
Gateways == {"g1", "g2"}
Types == {"guilds", "users"}
ProviderNames == {"json", "sql"}
Calls == 1..MaxCalls

\* constructor(client, type, provider): the type each Gateway is built with,
\* one Gateway per configuration domain
GatewayTypes == [g \in Gateways |-> IF g = "g1" THEN "guilds" ELSE "users"]

\* the constructor's optional provider argument; "" is the omitted argument
NoProvider == ""
\* client.options.providers.default
DefaultProvider == "json"
\* provider || this.client.options.providers.default
ResolveProviderName(p) == IF p = NoProvider THEN DefaultProvider ELSE p

\* ------------------------------------------------------ schema definitions
\* A schema definition is the ordered list of entries of a JSON object; an
\* entry is a piece (leaf) or a folder holding further entries.
Piece(key, ty, def) ==
    [key |-> key, kind |-> "piece", type |-> ty, default |-> def, children |-> <<>>]
Folder(key, children) ==
    [key |-> key, kind |-> "folder", type |-> "Folder", default |-> "", children |-> children]

DefEmpty == <<>>
DefFlat == << Piece("prefix", "string", "!") >>
DefNested == << Piece("prefix", "string", "!"),
                Folder("mod", << Piece("role", "role", "none") >>) >>
\* a folder declared before a piece, and a piece whose key is `default`
DefShadow == << Folder("mod", << Piece("role", "role", "none") >>),
                Piece("default", "boolean", "false") >>
SchemaDefinitions == {DefEmpty, DefFlat, DefNested, DefShadow}

\* JSON.stringify of a definition, as the sequence of its tokens
RECURSIVE StringifyEntries(_)
StringifyEntries(es) ==
    IF es = <<>> THEN <<>>
    ELSE LET n == Head(es) IN
         <<n.key>>
         \o (IF n.kind = "piece"
             THEN <<"{", "type", n.type, "default", n.default, "}">>
             ELSE <<"{">> \o StringifyEntries(n.children) \o <<"}">>)
         \o StringifyEntries(Tail(es))
Stringify(d) == <<"{">> \o StringifyEntries(d) \o <<"}">>

\* a file: absent, or present with a text
NoFile == [exists |-> FALSE, text |-> <<>>]
FileOf(text) == [exists |-> TRUE, text |-> text]
\* a definition file somebody damaged by hand: a text that is not JSON
CorruptText == <<"{", "prefix">>
\* what a write has put on disk when it is interrupted: the text cut short
Partial(text) == SubSeq(text, 1, Len(text) - 1)

\* fs.readJSON(path): the parsed content, or the rejection
readJSON(f) ==
    IF ~f.exists THEN [ok |-> FALSE, error |-> "ENOENT", value |-> <<>>]
    ELSE IF \E d \in SchemaDefinitions : Stringify(d) = f.text
         THEN [ok |-> TRUE, error |-> "",
               value |-> CHOOSE d \in SchemaDefinitions : Stringify(d) = f.text]
         ELSE [ok |-> FALSE, error |-> "SyntaxError", value |-> <<>>]
NoRead == [ok |-> FALSE, error |-> "none", value |-> <<>>]

\* ------------------------------------------------------------- schema tree
\* this.schema = null
Null == [null |-> TRUE, root |-> <<>>]
\* new SchemaFolder(this.client, this, schema, null, '')
SchemaFolder(def) == [null |-> FALSE, root |-> def]

\* SchemaFolder#sqlSchema: one column definition per leaf piece, flattened in
\* declaration order
RECURSIVE FolderSqlSchema(_)
FolderSqlSchema(es) ==
    IF es = <<>> THEN <<>>
    ELSE LET n == Head(es) IN
         (IF n.kind = "piece" THEN << <<n.key, n.type>> >>
          ELSE FolderSqlSchema(n.children))
         \o FolderSqlSchema(Tail(es))

IdColumn == <<"id", "VARCHAR(19) NOT NULL UNIQUE PRIMARY KEY">>
\* [...this.schema.sqlSchema, ['id', ...]]: the identity column put last
sqlSchemaIdLast(s) == FolderSqlSchema(s.root) \o <<IdColumn>>
\* get sqlSchema(): only evaluated where this.schema is not null
sqlSchema(s) == <<IdColumn>> \o FolderSqlSchema(s.root)

\* an object: its entries in insertion order, each a key and a value; a
\* value has the type of its piece and its text, or is a nested object
Value(ty, text) == [t |-> ty, v |-> text, o |-> <<>>]
Object(entries) == [t |-> "object", v |-> "", o |-> entries]
True == Value("boolean", "true")
Keys(obj) == {obj[i].key : i \in 1..Len(obj)}
Lookup(obj, key) == obj[CHOOSE i \in 1..Len(obj) : obj[i].key = key].value

\* SchemaFolder#defaults: the default of every piece under its key, a nested
\* mapping for every folder
RECURSIVE FolderDefaults(_)
FolderDefaults(es) ==
    IF es = <<>> THEN <<>>
    ELSE LET n == Head(es) IN
         << [key |-> n.key,
             value |-> IF n.kind = "piece" THEN Value(n.type, n.default)
                       ELSE Object(FolderDefaults(n.children))] >>
         \o FolderDefaults(Tail(es))

\* { ...obj, [key]: value }: the key keeps its place if obj has it, and is
\* added last if not
Spread(obj, key, value) ==
    IF key \in Keys(obj)
    THEN [i \in 1..Len(obj) |->
            IF obj[i].key = key THEN [key |-> key, value |-> value] ELSE obj[i]]
    ELSE Append(obj, [key |-> key, value |-> value])

\* { default: true, ...this.schema.defaults }: the schema's own key wins
defaultsFlagFirst(s) ==
    IF "default" \in Keys(FolderDefaults(s.root)) THEN FolderDefaults(s.root)
    ELSE <<[key |-> "default", value |-> True]>> \o FolderDefaults(s.root)
\* get defaults(): { ...this.schema.defaults, default: true }
defaults(s) == Spread(FolderDefaults(s.root), "default", True)

\* the keys of the leaf pieces of a definition, in declaration order
RECURSIVE LeafKeys(_)
LeafKeys(es) ==
    IF es = <<>> THEN <<>>
    ELSE (IF Head(es).kind = "piece" THEN <<Head(es).key>>
          ELSE LeafKeys(Head(es).children)) \o LeafKeys(Tail(es))

\* ------------------------------------------------------------------- state
VARIABLES
    gateways,       \* the Gateway objects the application has constructed
    type,           \* Gateway#type, set by the constructor
    providerName,   \* Gateway#providerName, set by the constructor
    ready,          \* Gateway#ready
    schema,         \* Gateway#schema
    providers,      \* client.providers: the registered provider names
    tables,         \* the backing stores: <<provider, table>> pairs that exist
    baseDir,        \* whether the bwd directory exists
    file,           \* the definition file of each type
    temp,           \* the temporary file an atomic write of it goes through
    pc,             \* where each init call stands
    gw,             \* the Gateway each init call was made on
    arg,            \* the defaultSchema init handed to initSchema
    read,           \* what readJSON gave the call
    hasTable,       \* what hasTable gave the call: "none", "true", "false"
    err,            \* the error the call threw, "" if none
    ops,            \* the filesystem and provider calls each init call issued
    crashes,        \* how many times the process was killed
    lastKill        \* whether the last kill of the process interrupted a write

\* what the application around the Gateway holds
VARIABLES
    got,            \* the last read of an accessor of a Gateway and what it gave;
                    \* tick flips with every read
    guilds,         \* client.guilds: the ids of the cached guilds
    resolved,       \* the last run of the guild argument and its outcome
    channel,        \* the channel the send-eligibility getter is read on
    postable        \* the last read of the getter and what it gave

vars == <<gateways, type, providerName, ready, schema, providers, tables, baseDir, file,
          temp, pc, gw, arg, read, hasTable, err, ops, crashes, lastKill,
          got, guilds, resolved, channel, postable>>

accessorVars == <<got>>
pieceVars == <<guilds, resolved, channel, postable>>

\* no accessor was read yet
NoGet == [acc |-> "none", on |-> "", threw |-> FALSE, provider |-> "",
          object |-> <<>>, rows |-> <<>>, tick |-> FALSE]
\* the guild argument has not run yet
NoRun == [arg |-> "", looked |-> FALSE, threw |-> FALSE, guild |-> "", message |-> <<>>]
\* no channel is looked at
NoChannel == [kind |-> "none", guild |-> FALSE, readable |-> FALSE, permissions |-> {}]
\* the getter was not read yet
NoPostable == [value |-> "none", permissionsFor |-> FALSE]

\* nothing happened around the Gateway
AppIdle ==
    /\ got = NoGet
    /\ guilds = {}
    /\ resolved = NoRun
    /\ channel = NoChannel
    /\ postable = NoPostable

gatewayVars == <<gateways, type, providerName>>
diskVars == <<baseDir, file, temp>>

\* one call to the filesystem or to a provider: the operation, the object it
\* is called on ("fs" or a provider), its path or table, and its data
Op(name, on, target, data) == [op |-> name, on |-> on, target |-> target, data |-> data]

\* resolve(this.baseDir, `${this.type}_Schema.json`): one file per type
filePath(g) == type[g]

NoProviderFound == "null"
\* a provider looked up once and kept: the last value the accessor gave
providerCached(g) ==
    IF got.acc = "provider" /\ got.on = g THEN got.provider
    ELSE IF providerName[g] \in providers THEN providerName[g] ELSE NoProviderFound
\* this.client.providers.get(this.providerName) taken for granted
providerUnchecked(g) == providerName[g]
\* get provider(): this.client.providers.get(this.providerName) || null
provider(g) == IF providerName[g] \in providers THEN providerName[g] ELSE NoProviderFound

\* the calls of one process, before any of them is made
FreshCalls ==
    /\ pc = [c \in Calls |-> "idle"]
    /\ gw = [c \in Calls |-> ""]
    /\ arg = [c \in Calls |-> DefEmpty]
    /\ read = [c \in Calls |-> NoRead]
    /\ hasTable = [c \in Calls |-> "none"]
    /\ err = [c \in Calls |-> ""]
    /\ ops = [c \in Calls |-> <<>>]

\* the files of the types some constructed Gateway has
FilesOf(gs, contents) ==
    {f \in [Types -> contents \cup {NoFile}] :
        \A t \in Types : (\A g \in gs : GatewayTypes[g] # t) => f[t] = NoFile}

\* The application constructs one Gateway; the bwd directory and the
\* definition file are absent (first boot) or left by an earlier run, the
\* file possibly damaged; the backing stores are still to be created.
Init ==
    /\ gateways = {"g1"}
    /\ type = GatewayTypes
    /\ \E a \in [Gateways -> {NoProvider} \cup ProviderNames] :
          providerName = [g \in Gateways |-> ResolveProviderName(a[g])]
    /\ ready = [g \in Gateways |-> FALSE]
    /\ schema = [g \in Gateways |-> Null]
    /\ providers \in SUBSET ProviderNames
    /\ tables = {}
    /\ baseDir \in BOOLEAN
    /\ file \in FilesOf(gateways, IF baseDir THEN {FileOf(CorruptText)} ELSE {})
    /\ temp = [t \in Types |-> NoFile]
    /\ FreshCalls
    /\ crashes = 0
    /\ lastKill = FALSE
    /\ AppIdle

\* --------------------------------------------------------------- init()
\* an init without the guard
GuardMissing(g) == FALSE
\* if (this.ready) throw
AlreadyInitialized(g) == ready[g]

\* an init that does not set the flag before its first await
ReadyNotSet(g) == ready
\* this.ready = false
ReadyCleared(g) == [ready EXCEPT ![g] = FALSE]
\* this.ready = true
SetReady(g) == [ready EXCEPT ![g] = TRUE]

Fail(c, e) ==
    /\ pc' = [pc EXCEPT ![c] = "failed"]
    /\ err' = [err EXCEPT ![c] = e]

\* calls are numbered in the order they are made
NextCall(c) == pc[c] = "idle" /\ \A b \in Calls : b < c => pc[b] # "idle"

\* init(defaultSchema) up to its first await: the guard, the flag, and
\* initSchema's fs.ensureDir(this.baseDir)
init(c, g, D) ==
    /\ NextCall(c)
    /\ g \in gateways
    /\ gw' = [gw EXCEPT ![c] = g]
    /\ IF AlreadyInitialized(g)
       THEN /\ pc' = [pc EXCEPT ![c] = "rejected"]
            /\ err' = [err EXCEPT ![c] = "AlreadyInitialized"]
            /\ UNCHANGED <<ready, ops, arg>>
       ELSE /\ ready' = SetReady(g)
            /\ arg' = [arg EXCEPT ![c] = D]
            /\ pc' = [pc EXCEPT ![c] = "ensureDir"]
            /\ ops' = [ops EXCEPT ![c] = Append(@, Op("ensureDir", "fs", "bwd", <<>>))]
            /\ UNCHANGED err
    /\ UNCHANGED <<accessorVars, pieceVars, gatewayVars, schema, providers, tables, diskVars, read,
                   hasTable, crashes, lastKill>>

\* ----------------------------------------------------------- initSchema()
\* a catch that takes ENOENT only and lets a parse error through
OnlyNotFoundCaught(r) ==
    IF r.ok THEN "file" ELSE IF r.error = "ENOENT" THEN "default" ELSE "throw"
\* an initSchema that writes the default schema whatever the file holds
AlwaysDefault(r) == "default"
\* readJSON(...).catch(() => outputJSONAtomic(...)): a parsed file is used as
\* it is; the catch takes every rejection and writes the default schema
initSchemaBranch(r) == IF r.ok THEN "file" ELSE "default"

\* a write of an empty object in place of the default schema
WriteDataEmptyObject(D) == Stringify(DefEmpty)
\* fs.outputJSONAtomic(this.filePath, defaultSchema): the text written
WriteData(D) == Stringify(D)

\* .then(() => defaultSchema): the schema used after the default was written
WrittenSchema(D) == D

\* fs.outputJSON, which writes the definition file in place
WriteCallPlain == "outputJSON"
\* the fs-nextra call that writes the default schema
WriteCall == "outputJSONAtomic"

\* an initSchema that builds the SchemaFolder and does not keep it
SchemaNotAssigned(g, def) == schema
\* this.schema = new SchemaFolder(this.client, this, schema, null, '')
AssignSchema(g, def) == [schema EXCEPT ![g] = SchemaFolder(def)]

\* await fs.ensureDir(this.baseDir) returns; fs.readJSON(this.filePath) is issued
initSchema_ensureDir(c) ==
    /\ pc[c] = "ensureDir"
    /\ \E ok \in BOOLEAN :
         IF ok
         THEN /\ baseDir' = TRUE
              /\ pc' = [pc EXCEPT ![c] = "readJSON"]
              /\ ops' = [ops EXCEPT ![c] = Append(@, Op("readJSON", "fs", filePath(gw[c]), <<>>))]
              /\ UNCHANGED err
         ELSE /\ Fail(c, "EnsureDirError")
              /\ UNCHANGED <<baseDir, ops>>
    /\ UNCHANGED <<accessorVars, pieceVars, gatewayVars, ready, schema, providers, tables, file, temp, gw,
                   arg, read, hasTable, crashes, lastKill>>

\* fs.readJSON(this.filePath) settles: the parsed file becomes the schema, or
\* the catch issues the write of the default schema
initSchema_readJSON(c) ==
    /\ pc[c] = "readJSON"
    /\ LET g == gw[c]
           r == readJSON(file[filePath(g)])
       IN /\ read' = [read EXCEPT ![c] = r]
          /\ IF initSchemaBranch(r) = "file"
             THEN /\ schema' = AssignSchema(g, r.value)
                  /\ pc' = [pc EXCEPT ![c] = "initTable"]
                  /\ UNCHANGED <<ops, err>>
             ELSE IF initSchemaBranch(r) = "default"
             THEN /\ pc' = [pc EXCEPT ![c] = "write"]
                  /\ ops' = [ops EXCEPT ![c] =
                               Append(@, Op(WriteCall, "fs", filePath(g), <<WriteData(arg[c])>>))]
                  /\ UNCHANGED <<schema, err>>
             ELSE /\ Fail(c, r.error)
                  /\ UNCHANGED <<schema, ops>>
    /\ UNCHANGED <<accessorVars, pieceVars, gatewayVars, ready, providers, tables, diskVars, gw, arg,
                   hasTable, crashes, lastKill>>

\* the file a write puts its bytes in: the temporary file for an atomic write
PutText(c, text) ==
    LET t == filePath(gw[c]) IN
    IF WriteCall = "outputJSONAtomic"
    THEN /\ temp' = [temp EXCEPT ![t] = FileOf(text)]
         /\ UNCHANGED file
    ELSE /\ file' = [file EXCEPT ![t] = FileOf(text)]
         /\ UNCHANGED temp

\* the write starts: the first bytes are on disk, or the open fails
outputJSONAtomic_write(c) ==
    /\ pc[c] = "write"
    /\ \E ok \in BOOLEAN :
         IF ok
         THEN /\ PutText(c, Partial(WriteData(arg[c])))
              /\ pc' = [pc EXCEPT ![c] = "writing"]
              /\ UNCHANGED err
         ELSE /\ Fail(c, "WriteError")
              /\ UNCHANGED <<file, temp>>
    /\ UNCHANGED <<accessorVars, pieceVars, gatewayVars, ready, schema, providers, tables, baseDir, gw,
                   arg, read, hasTable, ops, crashes, lastKill>>

\* the write ends: the whole text is on disk, or the write fails part-way
outputJSONAtomic_writeDone(c) ==
    /\ pc[c] = "writing"
    /\ \E ok \in BOOLEAN :
         IF ok
         THEN /\ PutText(c, WriteData(arg[c]))
              /\ pc' = [pc EXCEPT ![c] = "move"]
              /\ UNCHANGED err
         ELSE /\ Fail(c, "WriteError")
              /\ UNCHANGED <<file, temp>>
    /\ UNCHANGED <<accessorVars, pieceVars, gatewayVars, ready, schema, providers, tables, baseDir, gw,
                   arg, read, hasTable, ops, crashes, lastKill>>

\* the temporary file is moved over the definition file, and initSchema
\* builds this.schema from the default schema
outputJSONAtomic_move(c) ==
    /\ pc[c] = "move"
    /\ LET g == gw[c]
           t == filePath(g)
       IN \E ok \in BOOLEAN :
            IF ok
            THEN /\ IF WriteCall = "outputJSONAtomic"
                    THEN /\ file' = [file EXCEPT ![t] = temp[t]]
                         /\ temp' = [temp EXCEPT ![t] = NoFile]
                    ELSE UNCHANGED <<file, temp>>
                 /\ schema' = AssignSchema(g, WrittenSchema(arg[c]))
                 /\ pc' = [pc EXCEPT ![c] = "initTable"]
                 /\ UNCHANGED err
            ELSE /\ Fail(c, "WriteError")
                 /\ UNCHANGED <<file, temp, schema>>
    /\ UNCHANGED <<accessorVars, pieceVars, gatewayVars, ready, providers, tables, baseDir, gw, arg, read,
                   hasTable, ops, crashes, lastKill>>

\* ------------------------------------------------------------ initTable()
\* Provider#hasTable(table): whether the backing store exists
ProviderHasTable(p, t) == <<p, t>> \in tables

\* Provider#createTable(table, columns): the backing store exists afterwards
ProviderCreateTable(p, t) == tables \cup {<<p, t>>}

\* a createTable that does not depend on hasTable
AlwaysCreate(has) == TRUE
\* a rejection of the provider that init does not pass on
ProviderErrorSwallowed(c) ==
    /\ pc' = [pc EXCEPT ![c] = "done"]
    /\ UNCHANGED err
\* await this.provider.hasTable(...) / createTable(...) rejects: init rejects
ProviderError(c) == Fail(c, "ProviderError")

\* if (!hasTable)
NeedsCreate(has) == ~has

\* the object of the call's last operation
IssuedOn(c) == ops[c][Len(ops[c])].on

\* await this.initSchema(defaultSchema) returns; initTable resolves
\* this.provider and issues hasTable(this.type)
initTable(c) ==
    /\ pc[c] = "initTable"
    /\ LET g == gw[c] IN
       IF provider(g) = NoProviderFound
       THEN /\ Fail(c, "TypeError")
            /\ UNCHANGED ops
       ELSE /\ pc' = [pc EXCEPT ![c] = "hasTable"]
            /\ ops' = [ops EXCEPT ![c] = Append(@, Op("hasTable", provider(g), type[g], <<>>))]
            /\ UNCHANGED err
    /\ UNCHANGED <<accessorVars, pieceVars, gatewayVars, ready, schema, providers, tables, diskVars, gw,
                   arg, read, hasTable, crashes, lastKill>>

\* hasTable settles; if the table is missing, this.provider and
\* this.sqlSchema are evaluated and createTable is issued
initTable_hasTable(c) ==
    /\ pc[c] = "hasTable"
    /\ LET g == gw[c] IN
       \E ok \in BOOLEAN :
         IF ~ok
         THEN /\ ProviderError(c)
              /\ UNCHANGED <<hasTable, ops>>
         ELSE LET has == ProviderHasTable(IssuedOn(c), type[g]) IN
              /\ hasTable' = [hasTable EXCEPT ![c] = IF has THEN "true" ELSE "false"]
              /\ IF ~NeedsCreate(has)
                 THEN /\ pc' = [pc EXCEPT ![c] = "done"]
                      /\ UNCHANGED <<ops, err>>
                 ELSE IF provider(g) = NoProviderFound \/ schema[g].null
                 THEN /\ Fail(c, "TypeError")
                      /\ UNCHANGED ops
                 ELSE /\ pc' = [pc EXCEPT ![c] = "createTable"]
                      /\ ops' = [ops EXCEPT ![c] =
                                   Append(@, Op("createTable", provider(g), type[g],
                                                sqlSchema(schema[g])))]
                      /\ UNCHANGED err
    /\ UNCHANGED <<accessorVars, pieceVars, gatewayVars, ready, schema, providers, tables, diskVars, gw,
                   arg, read, crashes, lastKill>>

\* createTable settles and init returns
initTable_createTable(c) ==
    /\ pc[c] = "createTable"
    /\ \E ok \in BOOLEAN :
         IF ok
         THEN /\ tables' = ProviderCreateTable(IssuedOn(c), ops[c][Len(ops[c])].target)
              /\ pc' = [pc EXCEPT ![c] = "done"]
              /\ UNCHANGED err
         ELSE /\ ProviderError(c)
              /\ UNCHANGED tables
    /\ UNCHANGED <<accessorVars, pieceVars, gatewayVars, ready, schema, providers, diskVars, gw, arg, read,
                   hasTable, ops, crashes, lastKill>>

\* ------------------------------------------------------------ the process
\* The process is killed and started again: every Gateway is constructed
\* anew, the disk and the backing stores are what they were.
Kill ==
    /\ crashes < MaxCrashes
    /\ crashes' = crashes + 1
    /\ lastKill' = (\E c \in Calls : pc[c] \in {"writing", "move"})
    /\ ready' = [g \in Gateways |-> FALSE]
    /\ schema' = [g \in Gateways |-> Null]
    /\ pc' = [c \in Calls |-> "idle"]
    /\ gw' = [c \in Calls |-> ""]
    /\ arg' = [c \in Calls |-> DefEmpty]
    /\ read' = [c \in Calls |-> NoRead]
    /\ hasTable' = [c \in Calls |-> "none"]
    /\ err' = [c \in Calls |-> ""]
    /\ ops' = [c \in Calls |-> <<>>]
    /\ UNCHANGED <<accessorVars, pieceVars, gatewayVars, providers, tables, diskVars>>

\* ------------------------------------------------------- the accessors
\* a read of an accessor that threw, and one that returned
Threw(acc, g) == [NoGet EXCEPT !.acc = acc, !.on = g, !.threw = TRUE, !.tick = ~got.tick]
Returned(acc, g) == [NoGet EXCEPT !.acc = acc, !.on = g, !.tick = ~got.tick]

\* gateway.sqlSchema is read; a null schema makes the getter throw
get_sqlSchema(g) ==
    /\ g \in gateways
    /\ got' = IF schema[g].null THEN Threw("sqlSchema", g)
              ELSE [Returned("sqlSchema", g) EXCEPT !.rows = sqlSchema(schema[g])]
    /\ UNCHANGED <<pieceVars, gatewayVars, ready, schema, providers, tables, diskVars,
                   pc, gw, arg, read, hasTable, err, ops, crashes, lastKill>>

\* gateway.provider is read
get_provider(g) ==
    /\ g \in gateways
    /\ got' = [Returned("provider", g) EXCEPT !.provider = provider(g)]
    /\ UNCHANGED <<pieceVars, gatewayVars, ready, schema, providers, tables, diskVars,
                   pc, gw, arg, read, hasTable, err, ops, crashes, lastKill>>

\* Object.assign(this.schema.defaults, { default: true }): the flag written
\* into the schema's own mapping
defaultsAssignedInPlace(g) ==
    IF schema[g].null THEN schema
    ELSE [schema EXCEPT ![g].root = Append(@, Piece("default", "boolean", "true"))]
\* { ...this.schema.defaults, ... } is a new object: this.schema is as it was
schemaAfterDefaults(g) == schema

\* gateway.defaults is read; a null schema makes the getter throw
get_defaults(g) ==
    /\ g \in gateways
    /\ got' = IF schema[g].null THEN Threw("defaults", g)
              ELSE [Returned("defaults", g) EXCEPT !.object = defaults(schema[g])]
    /\ schema' = schemaAfterDefaults(g)
    /\ UNCHANGED <<pieceVars, gatewayVars, ready, providers, tables, diskVars,
                   pc, gw, arg, read, hasTable, err, ops, crashes, lastKill>>

\* ------------------------------------------------- the provider registry
\* a provider is registered under its name: client.providers.set(name, ...)
register(p) ==
    /\ p \notin providers
    /\ providers' = providers \cup {p}
    /\ UNCHANGED <<accessorVars, pieceVars, gatewayVars, ready, schema, tables, diskVars,
                   pc, gw, arg, read, hasTable, err, ops, crashes, lastKill>>

\* a provider is removed: client.providers.delete(name)
unregister(p) ==
    /\ p \in providers
    /\ providers' = providers \ {p}
    /\ UNCHANGED <<accessorVars, pieceVars, gatewayVars, ready, schema, tables, diskVars,
                   pc, gw, arg, read, hasTable, err, ops, crashes, lastKill>>

Next ==
    \/ \E c \in Calls, g \in Gateways, D \in SchemaDefinitions : init(c, g, D)
    \/ \E c \in Calls : initSchema_ensureDir(c)
    \/ \E c \in Calls : initSchema_readJSON(c)
    \/ \E c \in Calls : outputJSONAtomic_write(c)
    \/ \E c \in Calls : outputJSONAtomic_writeDone(c)
    \/ \E c \in Calls : outputJSONAtomic_move(c)
    \/ \E c \in Calls : initTable(c)
    \/ \E c \in Calls : initTable_hasTable(c)
    \/ \E c \in Calls : initTable_createTable(c)
    \/ Kill

Spec == Init /\ [][Next]_vars

\* One process in which the application also reads the accessors of the
\* Gateway and registers and removes providers while init runs.
NextApp ==
    \/ \E c \in Calls, g \in Gateways, D \in SchemaDefinitions : init(c, g, D)
    \/ \E c \in Calls : initSchema_ensureDir(c)
    \/ \E c \in Calls : initSchema_readJSON(c)
    \/ \E c \in Calls : outputJSONAtomic_write(c)
    \/ \E c \in Calls : outputJSONAtomic_writeDone(c)
    \/ \E c \in Calls : outputJSONAtomic_move(c)
    \/ \E c \in Calls : initTable(c)
    \/ \E c \in Calls : initTable_hasTable(c)
    \/ \E c \in Calls : initTable_createTable(c)
    \/ \E g \in Gateways : get_sqlSchema(g)
    \/ \E g \in Gateways : get_provider(g)
    \/ \E g \in Gateways : get_defaults(g)
    \/ \E p \in ProviderNames : register(p)
    \/ \E p \in ProviderNames : unregister(p)

SpecApp == Init /\ [][NextApp]_vars

\* Two Gateway instances are constructed for the same type on the same
\* registered provider, on a first boot; their init calls interleave.
InitShared ==
    /\ gateways = Gateways
    /\ type = [g \in Gateways |-> "guilds"]
    /\ providerName = [g \in Gateways |-> ResolveProviderName(NoProvider)]
    /\ ready = [g \in Gateways |-> FALSE]
    /\ schema = [g \in Gateways |-> Null]
    /\ providers = ProviderNames
    /\ tables = {}
    /\ baseDir = FALSE
    /\ file = [t \in Types |-> NoFile]
    /\ temp = [t \in Types |-> NoFile]
    /\ FreshCalls
    /\ crashes = 0
    /\ lastKill = FALSE
    /\ AppIdle

NextShared ==
    \/ \E c \in Calls, g \in Gateways, D \in SchemaDefinitions : init(c, g, D)
    \/ \E c \in Calls : initSchema_ensureDir(c)
    \/ \E c \in Calls : initSchema_readJSON(c)
    \/ \E c \in Calls : outputJSONAtomic_write(c)
    \/ \E c \in Calls : outputJSONAtomic_writeDone(c)
    \/ \E c \in Calls : outputJSONAtomic_move(c)
    \/ \E c \in Calls : initTable(c)
    \/ \E c \in Calls : initTable_hasTable(c)
    \/ \E c \in Calls : initTable_createTable(c)

SpecShared == InitShared /\ [][NextShared]_vars

(***************************************************************************)
(* The pieces: the guild argument and the send-eligibility getter           *)
(***************************************************************************)

\* the texts that match this.constructor.regex.snowflake, and texts that do not
Snowflakes == {"111", "222"}
Texts == Snowflakes \cup {"abc", ""}
\* possible.name
PossibleNames == {"guild", "target"}
\* msg.language, NoLanguage when the message has none
NoLanguage == ""
Languages == {"en-US", "fr-FR"}
\* this.client.languages.default
languagesDefault == "en-US"
\* undefined, null
NoGuild == ""

\* the pattern test left out: every text is looked up
snowflakeAny(a) == TRUE
\* this.constructor.regex.snowflake.test(arg)
snowflake(a) == a \in Snowflakes

\* this.client.guilds.get(arg): the entry cached under the id, or undefined
guildsGet(a) == IF a \in guilds THEN a ELSE NoGuild

\* (msg.language || this.client.languages.default).get('RESOLVER_INVALID_GUILD', possible.name)
InvalidGuild(language, name) ==
    <<IF language # NoLanguage THEN language ELSE languagesDefault,
      "RESOLVER_INVALID_GUILD", name>>

\* run(arg, possible, msg) of the guild argument
run(a, possible, msg) ==
    /\ LET test == snowflake(a)
           guild == IF test THEN guildsGet(a) ELSE NoGuild
       IN  resolved' =
             IF guild # NoGuild
             THEN [arg |-> a, looked |-> test, threw |-> FALSE, guild |-> guild,
                   message |-> <<>>]
             ELSE [arg |-> a, looked |-> test, threw |-> TRUE, guild |-> NoGuild,
                   message |-> InvalidGuild(msg, possible)]
    /\ UNCHANGED <<guilds, channel, postable, accessorVars, gatewayVars, ready, schema,
                   providers, tables, diskVars, pc, gw, arg, read, hasTable, err, ops,
                   crashes, lastKill>>

\* the client joins a guild or receives it: client.guilds.set(id, guild)
guildCreate(id) ==
    /\ id \notin guilds
    /\ guilds' = guilds \cup {id}
    /\ UNCHANGED <<resolved, channel, postable, accessorVars, gatewayVars, ready, schema,
                   providers, tables, diskVars, pc, gw, arg, read, hasTable, err, ops,
                   crashes, lastKill>>

\* the client leaves a guild: client.guilds.delete(id)
guildDelete(id) ==
    /\ id \in guilds
    /\ guilds' = guilds \ {id}
    /\ UNCHANGED <<resolved, channel, postable, accessorVars, gatewayVars, ready, schema,
                   providers, tables, diskVars, pc, gw, arg, read, hasTable, err, ops,
                   crashes, lastKill>>

\* appliesTo: the classes the getter is added to
appliesTo == {"GroupDMChannel", "DMChannel", "TextChannel"}
Permissions == {"SEND_MESSAGES", "VIEW_CHANNEL"}
\* a channel: whether it has a guild, whether it is readable, and what
\* permissionsFor(this.guild.me) holds; only a TextChannel has a guild
Channels ==
    {[kind |-> k, guild |-> (k = "TextChannel"), readable |-> r, permissions |-> ps] :
        k \in appliesTo, r \in BOOLEAN, ps \in SUBSET Permissions}

\* the guild test left out: this.readable && this.permissionsFor(...).has(...)
extendGuildOnly(ch) ==
    IF ~ch.readable THEN [value |-> "false", permissionsFor |-> FALSE]
    ELSE [value |-> IF "SEND_MESSAGES" \in ch.permissions THEN "true" ELSE "false",
          permissionsFor |-> TRUE]
\* get extend(): !this.guild ||
\*     (this.readable && this.permissionsFor(this.guild.me).has('SEND_MESSAGES'))
extend(ch) ==
    IF ~ch.guild THEN [value |-> "true", permissionsFor |-> FALSE]
    ELSE IF ~ch.readable THEN [value |-> "false", permissionsFor |-> FALSE]
    ELSE [value |-> IF "SEND_MESSAGES" \in ch.permissions THEN "true" ELSE "false",
          permissionsFor |-> TRUE]

\* the getter is read on the channel
get_extend ==
    /\ channel # NoChannel
    /\ postable' = extend(channel)
    /\ UNCHANGED <<guilds, resolved, channel, accessorVars, gatewayVars, ready, schema,
                   providers, tables, diskVars, pc, gw, arg, read, hasTable, err, ops,
                   crashes, lastKill>>

\* another channel, or the same one with other permissions, is looked at;
\* the getter was not read on it yet
channelUpdate(ch) ==
    /\ channel # ch
    /\ channel' = ch
    /\ postable' = NoPostable
    /\ UNCHANGED <<guilds, resolved, accessorVars, gatewayVars, ready, schema,
                   providers, tables, diskVars, pc, gw, arg, read, hasTable, err, ops,
                   crashes, lastKill>>

NextPieces ==
    \/ \E a \in Texts, possible \in PossibleNames, msg \in Languages \cup {NoLanguage} :
          run(a, possible, msg)
    \/ \E id \in Snowflakes : guildCreate(id)
    \/ \E id \in Snowflakes : guildDelete(id)
    \/ get_extend
    \/ \E ch \in Channels : channelUpdate(ch)

SpecPieces == Init /\ [][NextPieces]_vars

\* ------------------------------------------------------------ properties
Started(c) == pc[c] # "idle"
\* the call passed the guard of init
Passed(c) == pc[c] \notin {"idle", "rejected"}
\* the call is suspended at an await
Suspended(c) ==
    pc[c] \in {"ensureDir", "readJSON", "write", "writing", "move", "initTable",
               "hasTable", "createTable"}
\* the call is through initSchema
SchemaBootstrapped(c) ==
    \/ pc[c] \in {"initTable", "hasTable", "createTable", "done"}
    \/ pc[c] = "failed" /\ err[c] \in {"TypeError", "ProviderError"}
\* the places of an operation in a call's log
OpsOf(c, name) == {i \in 1..Len(ops[c]) : ops[c][i].op = name}
\* a call made on the Gateway of c after an earlier call on it
AfterFirst(c) == Started(c) /\ \E b \in Calls : b < c /\ gw[b] = gw[c]

\* C1: any init call made on a Gateway after a first init call fails with
\* AlreadyInitialized and issues no filesystem or provider operation, and one
\* Gateway never issues createTable twice.
C1_SecondInitRejected ==
    /\ \A c \in Calls :
         AfterFirst(c) =>
            pc[c] = "rejected" /\ err[c] = "AlreadyInitialized" /\ Len(ops[c]) = 0
    /\ \A g \in gateways :
         Cardinality(UNION {{<<c, i>> : i \in OpsOf(c, "createTable")} :
                              c \in {b \in Calls : gw[b] = g}}) <= 1

\* a second init call was rejected after the first one created the table and
\* returned
C1_Witness ==
    \E b, c \in Calls :
        /\ b < c /\ gw[b] = gw[c]
        /\ pc[b] = "done" /\ OpsOf(b, "createTable") # {}
        /\ pc[c] = "rejected"

\* C2: when init calls on one Gateway overlap, the later one fails at once,
\* and at most one init call per Gateway ever passes the guard.
C2_OneInitPassesGuard ==
    /\ \A g \in gateways : Cardinality({c \in Calls : gw[c] = g /\ Passed(c)}) <= 1
    /\ \A b, c \in Calls :
         (b # c /\ gw[b] = gw[c] /\ Suspended(b) /\ Started(c)) => pc[c] = "rejected"

\* an init call was rejected while the first one is suspended at the write
\* of the default schema or at the provider
C2_Witness ==
    \E b, c \in Calls :
        /\ b # c /\ gw[b] = gw[c]
        /\ pc[b] \in {"writing", "hasTable"}
        /\ pc[c] = "rejected" /\ err[c] = "AlreadyInitialized"

\* C3: ready is true only after both schema bootstrap and storage bootstrap
\* succeeded; when init fails, ready is false.
C3_ReadyOnlyAfterSuccess ==
    \A g \in gateways :
        ready[g] => \E c \in Calls : gw[c] = g /\ pc[c] = "done"

\* C4: in every state, schema is non-null if and only if ready is true.
C4_SchemaIffReady ==
    \A g \in gateways : (~schema[g].null) <=> ready[g]

\* C5: within one init call hasTable and createTable are only called after
\* initSchema read the definition file and assigned the Schema Tree, and the
\* columns passed to createTable are those of the assigned schema.
C5_SchemaBeforeStorage ==
    \A c \in Calls :
        \A i \in OpsOf(c, "hasTable") \cup OpsOf(c, "createTable") :
            /\ ~schema[gw[c]].null
            /\ \E j \in OpsOf(c, "readJSON") : j < i
            /\ ops[c][i].op = "createTable" =>
                  ops[c][i].data = sqlSchema(schema[gw[c]])

\* createTable is pending with the columns of a nested schema
C5_Witness ==
    \E c \in Calls :
        /\ pc[c] = "createTable"
        /\ schema[gw[c]] = SchemaFolder(DefNested)
        /\ Len(ops[c][Len(ops[c])].data) = 3

\* C6: createTable(type, sqlSchema) is called exactly once when hasTable
\* returned false and never when it returned true (nor before it returned),
\* and hasTable and createTable are called with the Gateway's own type.
C6_CreateIffTableMissing ==
    \A c \in Calls :
        /\ hasTable[c] = "false" => Cardinality(OpsOf(c, "createTable")) = 1
        /\ hasTable[c] \in {"true", "none"} => OpsOf(c, "createTable") = {}
        /\ Cardinality(OpsOf(c, "hasTable")) <= 1
        /\ \A i \in OpsOf(c, "hasTable") \cup OpsOf(c, "createTable") :
              ops[c][i].target = type[gw[c]]

\* after a restart init found the table of the earlier run and returned
\* without creating it
C6_Witness ==
    \E c \in Calls :
        /\ pc[c] = "done" /\ hasTable[c] = "true"
        /\ <<providerName[gw[c]], type[gw[c]]>> \in tables

\* C7: when init(D) finds no definition file, then after schema bootstrap
\* the file exists with content equal to D and the Schema Tree is built from D.
C7_DefaultWrittenWhenAbsent ==
    \A c \in Calls :
        (read[c].error = "ENOENT" /\ SchemaBootstrapped(c)) =>
            LET f == file[filePath(gw[c])] IN
            /\ f.exists
            /\ readJSON(f).ok /\ readJSON(f).value = arg[c]
            /\ schema[gw[c]] = SchemaFolder(arg[c])

\* init(DefNested) on a Gateway without a definition file returned
C7_Witness ==
    \E c \in Calls :
        /\ read[c].error = "ENOENT" /\ pc[c] = "done"
        /\ arg[c] = DefNested /\ file[filePath(gw[c])] = FileOf(Stringify(DefNested))

\* C8: an unparsable definition file is treated as an absent one: the default
\* schema is written over it and used, and init throws nothing for the
\* corruption.
C8_CorruptFileHealed ==
    \A c \in Calls :
        read[c].error = "SyntaxError" =>
            /\ err[c] \in {"", "WriteError", "TypeError", "ProviderError"}
            /\ \E i \in OpsOf(c, WriteCall) :
                  /\ ops[c][i].data = <<Stringify(arg[c])>>
                  /\ ops[c][i].target = filePath(gw[c])
            /\ SchemaBootstrapped(c) =>
                  /\ file[filePath(gw[c])] = FileOf(Stringify(arg[c]))
                  /\ schema[gw[c]] = SchemaFolder(arg[c])

\* init returned after it found a damaged definition file
C8_Witness ==
    \E c \in Calls :
        /\ read[c].error = "SyntaxError" /\ pc[c] = "done"
        /\ file[filePath(gw[c])] = FileOf(Stringify(arg[c]))

\* C9: when the definition file exists with valid content F, schema bootstrap
\* builds the Schema Tree from F, writes no default schema and leaves the
\* file equal to F, whatever default schema init was given.
C9_ValidFileKept ==
    \A c \in Calls :
        read[c].ok =>
            /\ schema[gw[c]] = SchemaFolder(read[c].value)
            /\ OpsOf(c, "outputJSONAtomic") \cup OpsOf(c, "outputJSON") = {}
            /\ file[filePath(gw[c])] = FileOf(Stringify(read[c].value))

\* a new Gateway instance loaded the file of an earlier run although it was
\* given another default schema
C9_Witness ==
    \E c \in Calls :
        /\ read[c].ok /\ read[c].value # arg[c]
        /\ pc[c] = "done" /\ crashes > 0

\* C10: the write of the default schema is atomic: every change of the
\* definition file puts the complete default schema of a writing call there,
\* so a process killed during the write leaves no partly written file.
C10_AtomicWrite ==
    [][\A t \in Types :
          file'[t] # file[t] =>
             \E c \in Calls :
                /\ pc[c] \in {"write", "writing", "move"}
                /\ filePath(gw[c]) = t
                /\ file'[t] = FileOf(Stringify(arg[c]))]_vars

\* the process was killed during a write, which left a partly written
\* temporary file, and the next init has read the definition file
C10_Witness ==
    /\ lastKill
    /\ \E c \in Calls :
          /\ read[c].error # "none"
          /\ temp[filePath(gw[c])].exists
          /\ ~readJSON(temp[filePath(gw[c])]).ok

\* C11: sqlSchema is the identity column followed by one column per leaf
\* piece of the schema tree, in declaration order; its length is 1 + the
\* number of leaf pieces.
C11_SqlSchemaShape ==
    (got.acc = "sqlSchema" /\ ~got.threw) =>
        LET leaves == LeafKeys(schema[got.on].root)
            rows == got.rows
        IN /\ Len(rows) = 1 + Len(leaves)
           /\ rows[1] = IdColumn
           /\ \A i \in 1..Len(leaves) : rows[i + 1][1] = leaves[i]

\* sqlSchema was read on a Gateway whose schema declares a folder before a
\* piece
C11_Witness ==
    /\ got.acc = "sqlSchema" /\ ~got.threw
    /\ schema[got.on] = SchemaFolder(DefShadow)
    /\ got.rows = <<IdColumn, <<"role", "role">>, <<"default", "boolean">>>>

\* C12: defaults is the schema's default-value mapping with the key `default`
\* set to true: every other schema key maps to its schema default, also when
\* the schema declares a key named `default` itself.
C12_DefaultsFlag ==
    (got.acc = "defaults" /\ ~got.threw) =>
        LET d == FolderDefaults(schema[got.on].root)
            o == got.object
        IN /\ Keys(o) = Keys(d) \cup {"default"}
           /\ Lookup(o, "default") = True
           /\ \A k \in Keys(d) \ {"default"} : Lookup(o, k) = Lookup(d, k)

\* defaults was read on a Gateway whose schema declares a key `default` with
\* another default value
C12_Witness ==
    /\ got.acc = "defaults" /\ ~got.threw
    /\ schema[got.on] = SchemaFolder(DefShadow)
    /\ Lookup(FolderDefaults(DefShadow), "default") # True
    /\ Lookup(got.object, "mod") = Object(<<[key |-> "role", value |-> Value("role", "none")]>>)

\* C13: every read of the provider accessor gives the registry's current
\* entry for providerName, null when there is none, and never throws.
C13_ProviderResolvedEachAccess ==
    [][\A g \in Gateways :
          (got'.tick # got.tick /\ got'.acc = "provider" /\ got'.on = g) =>
             /\ ~got'.threw
             /\ got'.provider = (IF providerName[g] \in providers
                                 THEN providerName[g] ELSE NoProviderFound)]_vars

\* the accessor was read, gave a provider, and gives null now that the
\* provider was removed
C13_Witness ==
    /\ got.acc = "provider" /\ got.provider = NoProviderFound
    /\ got.tick = FALSE
    /\ \E c \in Calls : OpsOf(c, "hasTable") # {} /\ gw[c] = got.on

\* the call went on from initSchema to the provider
StorageReached(c) ==
    \/ pc[c] \in {"hasTable", "createTable", "done"}
    \/ pc[c] = "failed" /\ err[c] \in {"TypeError", "ProviderError"}

\* C14: a failure of hasTable or createTable is passed on to the caller of
\* init, and nothing is rolled back: the definition file that schema
\* bootstrap wrote stays as written and the Schema Tree stays assigned.
C14_ProviderErrorNoRollback ==
    \A c \in Calls :
        /\ pc[c] = "done" =>
              /\ hasTable[c] # "none"
              /\ hasTable[c] = "false" => <<providerName[gw[c]], type[gw[c]]>> \in tables
        /\ err[c] = "ProviderError" =>
              /\ pc[c] = "failed"
              /\ ~schema[gw[c]].null
              /\ OpsOf(c, WriteCall) # {} =>
                    /\ file[filePath(gw[c])] = FileOf(Stringify(arg[c]))
                    /\ schema[gw[c]] = SchemaFolder(arg[c])

\* createTable failed after init wrote the default schema over a missing file
C14_Witness ==
    \E c \in Calls :
        /\ err[c] = "ProviderError" /\ hasTable[c] = "false"
        /\ OpsOf(c, WriteCall) # {} /\ read[c].error = "ENOENT"
        /\ file[filePath(gw[c])] = FileOf(Stringify(DefFlat))

\* C15: a read of provider, defaults or sqlSchema changes neither ready,
\* schema, the disk, the backing stores nor the registry, and no step of a
\* Gateway (an accessor or init) changes the registry.
C15_AccessorsChangeNothing ==
    [][/\ got'.tick # got.tick =>
            UNCHANGED <<ready, schema, baseDir, file, temp, tables, providers, pc, ops>>
       /\ (got'.tick # got.tick \/ pc' # pc) => providers' = providers]_vars

\* defaults was read while init is suspended at createTable
C15_Witness ==
    /\ got.acc = "defaults" /\ ~got.threw
    /\ \E c \in Calls : gw[c] = got.on /\ pc[c] = "createTable"

\* C16: once an init call was started on a Gateway, ready is true whatever
\* became of the call; after a failed init every further init call on the
\* instance is rejected, so the instance never completes an init.
C16_ReadyStaysSet ==
    /\ \A c \in Calls : Started(c) => ready[gw[c]]
    /\ \A b, c \in Calls :
         (b < c /\ gw[b] = gw[c] /\ pc[b] = "failed" /\ Started(c)) =>
            pc[c] = "rejected" /\ err[c] = "AlreadyInitialized"
    /\ \A g \in gateways :
         (\E b \in Calls : gw[b] = g /\ pc[b] = "failed") =>
            ~\E c \in Calls : gw[c] = g /\ pc[c] = "done"

\* init failed at ensureDir and the next init call on the instance was
\* rejected, with no schema built
C16_Witness ==
    \E b, c \in Calls :
        /\ b < c /\ gw[b] = gw[c]
        /\ pc[b] = "failed" /\ err[b] = "EnsureDirError"
        /\ pc[c] = "rejected"
        /\ ready[gw[c]] /\ schema[gw[c]].null

\* C17: when providerName is not registered, init goes through schema
\* bootstrap (directory, definition file, schema) and then fails before any
\* hasTable or createTable call, with ready true and schema non-null.
C17_UnregisteredProviderFails ==
    \A c \in Calls :
        (StorageReached(c) /\ providerName[gw[c]] \notin providers) =>
            /\ pc[c] = "failed" /\ err[c] = "TypeError"
            /\ OpsOf(c, "hasTable") \cup OpsOf(c, "createTable") = {}
            /\ OpsOf(c, "ensureDir") # {} /\ baseDir
            /\ readJSON(file[filePath(gw[c])]).ok
            /\ ready[gw[c]] /\ ~schema[gw[c]].null

\* init wrote the default schema and then failed for want of a provider
C17_Witness ==
    \E c \in Calls :
        /\ err[c] = "TypeError" /\ OpsOf(c, WriteCall) # {}
        /\ providerName[gw[c]] \notin providers
        /\ schema[gw[c]] = SchemaFolder(DefNested)

\* C18: for two Gateway instances of one type on one provider, under every
\* interleaving of their init calls createTable for the type is issued at
\* most once in total, and never while the table exists.
C18_CreateTableOnceForType ==
    [][\A c \in Calls :
          (pc'[c] = "createTable" /\ pc[c] # "createTable") =>
             /\ <<providerName[gw[c]], type[gw[c]]>> \notin tables
             /\ \A b \in Calls :
                  (b # c /\ Started(b) /\ type[gw[b]] = type[gw[c]]) =>
                     OpsOf(b, "createTable") = {}]_vars

\* C19: run returns a guild exactly when the text matches the snowflake
\* pattern and the guild cache holds an entry under that id, and then it
\* returns that entry; in every other case it throws the
\* RESOLVER_INVALID_GUILD message and returns nothing, and for a text that
\* does not match the pattern the cache is not looked up.
C19_GuildResolved ==
    [][resolved' # resolved =>
         LET r == resolved' IN
           /\ (~r.threw) <=> (r.arg \in Snowflakes /\ r.arg \in guilds)
           /\ (~r.threw) => (r.guild = r.arg /\ r.message = <<>>)
           /\ r.threw => (r.guild = NoGuild /\ Len(r.message) = 3
                          /\ r.message[2] = "RESOLVER_INVALID_GUILD")
           /\ r.arg \notin Snowflakes => ~r.looked]_vars

C19_Witness ==
    /\ ~resolved.threw
    /\ resolved.looked
    /\ resolved.guild \in Snowflakes
    /\ resolved.guild \in guilds

\* C20: the getter is true on every channel without a guild whatever its
\* readability and permissions; on a guild channel it is true exactly when
\* the channel is readable and the permissions hold SEND_MESSAGES; the
\* permissions are not evaluated when the channel has no guild or is not
\* readable.
C20_Postable ==
    postable # NoPostable =>
        /\ ~channel.guild => postable.value = "true"
        /\ channel.guild =>
              (postable.value = "true" <=>
                  (channel.readable /\ "SEND_MESSAGES" \in channel.permissions))
        /\ postable.value \in {"true", "false"}
        /\ (~channel.guild \/ ~channel.readable) => ~postable.permissionsFor

C20_Witness ==
    /\ postable.value = "true"
    /\ ~channel.guild
    /\ ~channel.readable

====
